---- MODULE Spec2Model ----
(***************************************************************************)
(* A model of mpyq (src/mpyq.py), a reader of MoPaQ archives.              *)
(*                                                                         *)
(* The byte source is a sequence of bytes (0..255) with a position.  A     *)
(* 32-bit unsigned value is the pair <<hi, lo>> of its 16-bit halves, so   *)
(* that the arithmetic of _hash and _decrypt (all of it modulo 2^32) is    *)
(* computed exactly.  Signed header fields (struct format 'i', 'h') are    *)
(* integers.  Strings are sequences of character codes.                    *)
(***************************************************************************)
EXTENDS Integers, Sequences, FiniteSets, TLC

\* ------------------------------------------------------------------------
\* 32-bit arithmetic on <<hi, lo>> pairs
\* ------------------------------------------------------------------------

\* The bit of weight w in a XOR b, and in a OR b.
XorBit(a, b, w) == IF (a \div w) % 2 = (b \div w) % 2 THEN 0 ELSE w

OrBit(a, b, w) == IF (a \div w) % 2 = 1 \/ (b \div w) % 2 = 1 THEN w ELSE 0

\* a XOR b and a OR b of two 4-bit values, tabulated.
XorNibble ==
    [a \in 0..15 |-> [b \in 0..15 |->
        (XorBit(a, b, 1) + XorBit(a, b, 2)) + (XorBit(a, b, 4) + XorBit(a, b, 8))]]

OrNibble ==
    [a \in 0..15 |-> [b \in 0..15 |->
        (OrBit(a, b, 1) + OrBit(a, b, 2)) + (OrBit(a, b, 4) + OrBit(a, b, 8))]]

\* a XOR b and a OR b of two 16-bit values, nibble by nibble.
Xor16(a, b) ==
    ((XorNibble[a \div 4096][b \div 4096] * 4096)
     + (XorNibble[(a \div 256) % 16][(b \div 256) % 16] * 256))
    + ((XorNibble[(a \div 16) % 16][(b \div 16) % 16] * 16)
       + XorNibble[a % 16][b % 16])

Or16(a, b) ==
    ((OrNibble[a \div 4096][b \div 4096] * 4096)
     + (OrNibble[(a \div 256) % 16][(b \div 256) % 16] * 256))
    + ((OrNibble[(a \div 16) % 16][(b \div 16) % 16] * 16)
       + OrNibble[a % 16][b % 16])

Xor32(x, y) == <<Xor16(x[1], y[1]), Xor16(x[2], y[2])>>

Or32(x, y) == <<Or16(x[1], y[1]), Or16(x[2], y[2])>>

\* (x + y) & 0xFFFFFFFF
Add32(x, y) ==
    LET lo == x[2] + y[2]
    IN  <<(x[1] + y[1] + (lo \div 65536)) % 65536, lo % 65536>>

\* (x << 5) & 0xFFFFFFFF
Shl5(x) == <<((x[1] * 32) + ((x[2] * 32) \div 65536)) % 65536, (x[2] * 32) % 65536>>

\* A small natural number as a 32-bit value.
U32(n) == <<n \div 65536, n % 65536>>

\* ------------------------------------------------------------------------
\* The encryption table
\* ------------------------------------------------------------------------

LcgStep(seed) == (seed * 125 + 3) % 2796203

\* The inner loop from round j on, in iteration i of the outer loop:
\* [vals |-> the entries of rounds 0..4, seed |-> the seed afterwards].
RECURSIVE CryptRounds(_, _, _)
CryptRounds(seed, j, vals) ==
    IF j = 5 THEN [vals |-> vals, seed |-> seed]
    ELSE CryptRounds(LcgStep(LcgStep(seed)), j + 1,
                     Append(vals, <<LcgStep(seed) % 65536,
                                    LcgStep(LcgStep(seed)) % 65536>>))

\* One iteration of the outer loop, from st = [rows, seed]: rows holds, for
\* every i done, the five entries crypt_table[i + 0x100*j].
CryptRow(st) ==
    CHOOSE t \in {[rows |-> Append(st.rows, r.vals), seed |-> r.seed] :
                  r \in {CryptRounds(st.seed, 0, <<>>)}} : TRUE

\* Iterations lo..hi-1 of the outer loop, in order.  The range is split in
\* halves, the first half evaluated before the second, only to keep the
\* evaluation shallow.
RECURSIVE CryptRange(_, _, _)
CryptRange(st, lo, hi) ==
    IF hi - lo = 1 THEN CryptRow(st)
    ELSE CHOOSE r \in {CryptRange(m, (lo + hi) \div 2, hi) :
                       m \in {CryptRange(st, lo, (lo + hi) \div 2)}} : TRUE

\* crypt_table[i + 0x100*j], as index 0..1279 -> 32-bit value.
encryption_table ==
    CHOOSE t \in {[k \in 0..1279 |-> rows[(k % 256) + 1][(k \div 256) + 1]] :
                  rows \in {CryptRange([rows |-> <<>>, seed |-> 1048577], 0, 256).rows}} :
        TRUE

\* ------------------------------------------------------------------------
\* _hash
\* ------------------------------------------------------------------------

TABLE_OFFSET == 0
HASH_A == 1
HASH_B == 2
TABLE == 3

\* ord(ch.upper()) of a one-byte string.
Upper(ch) == IF ch >= 97 /\ ch <= 122 THEN ch - 32 ELSE ch

\* One iteration of the loop of _hash: <<seed1, seed2>> after the character
\* code ch (already upper-cased), from the seeds before it.
HashStep(seeds, ch, hash_type) ==
    CHOOSE t \in {<<seed1, Add32(Add32(Add32(Add32(U32(ch), seed1), seeds[2]),
                                       Shl5(seeds[2])), U32(3))>> :
                  seed1 \in {Xor32(encryption_table[(hash_type * 256) + ch],
                                   Add32(seeds[1], seeds[2]))}} : TRUE

\* The iterations for the characters lo+1..hi of string, in order.  The range
\* is split in halves, the first half evaluated before the second, only to
\* keep the evaluation shallow.
RECURSIVE HashChars(_, _, _, _, _)
HashChars(seeds, string, hash_type, lo, hi) ==
    IF hi = lo THEN seeds
    ELSE IF hi - lo = 1 THEN HashStep(seeds, Upper(string[hi]), hash_type)
    ELSE CHOOSE r \in {HashChars(m, string, hash_type, (lo + hi) \div 2, hi) :
                       m \in {HashChars(seeds, string, hash_type, lo, (lo + hi) \div 2)}} :
             TRUE

Hash(string, hash_type) ==
    CHOOSE r \in {HashChars(<< <<32749, 32749>>, <<61166, 61166>> >>, str,
                            hash_type, 0, Len(str))[1] : str \in {string}} : TRUE

\* ------------------------------------------------------------------------
\* Bytes, slices and struct.unpack
\* ------------------------------------------------------------------------

Min(a, b) == IF a < b THEN a ELSE b

\* The Python slice s[lo:hi] for 0 <= lo.
Slice(s, lo, hi) == SubSeq(s, lo + 1, Min(hi, Len(s)))

\* struct.unpack("<I", b): four bytes, little-endian, as a 32-bit value.
UnpackU32(b) == <<(b[4] * 256) + b[3], (b[2] * 256) + b[1]>>

\* struct.pack("<I", w).
PackU32(w) == <<w[2] % 256, w[2] \div 256, w[1] % 256, w[1] \div 256>>

\* struct.unpack("<i", b): signed.
UnpackI32(b) ==
    LET w == UnpackU32(b)
    IN  IF w[1] >= 32768 THEN ((w[1] - 65536) * 65536) + w[2]
        ELSE (w[1] * 65536) + w[2]

\* struct.unpack("<h", b): signed.
UnpackI16(b) ==
    LET v == (b[2] * 256) + b[1]
    IN  IF v >= 32768 THEN v - 65536 ELSE v

\* struct.unpack("<H", b).
UnpackU16(b) == (b[2] * 256) + b[1]

\* ------------------------------------------------------------------------
\* _decrypt
\* ------------------------------------------------------------------------

\* ((~seed1 << 0x15) + 0x11111111) | (seed1 >> 0x0B), masked to 32 bits.
\* The low 32 bits of ~seed1 << 21 are the low 11 bits of the complement,
\* shifted; seed1 >> 11 is below 2^21.
NextSeed1(seed1) ==
    LET shl == <<(2047 - (seed1[2] % 2048)) * 32, 0>>
        shr == <<seed1[1] \div 2048, ((seed1[1] % 2048) * 32) + (seed1[2] \div 2048)>>
    IN  Or32(Add32(shl, <<4369, 4369>>), shr)

\* The end of an iteration of the loop of _decrypt, from the state
\* st = [seed1, seed2, result] before it, seed2 after its first update and the
\* decrypted value.
DecryptWord(st, seed2, value) ==
    [seed1 |-> NextSeed1(st.seed1),
     seed2 |-> Add32(Add32(Add32(value, seed2), Shl5(seed2)), U32(3)),
     result |-> st.result \o PackU32(value)]

\* One iteration of the loop of _decrypt on the four bytes word.
DecryptStep(st, word) ==
    CHOOSE t \in {DecryptWord(st, seed2, Xor32(UnpackU32(word), Add32(st.seed1, seed2))) :
                  seed2 \in {Add32(st.seed2,
                                   encryption_table[1024 + (st.seed1[2] % 256)])}} : TRUE

\* The iterations i = lo..hi-1, in order (split in halves as in HashChars).
RECURSIVE DecryptWords(_, _, _, _)
DecryptWords(st, data, lo, hi) ==
    IF hi = lo THEN st
    ELSE IF hi - lo = 1 THEN DecryptStep(st, Slice(data, lo * 4, (lo * 4) + 4))
    ELSE CHOOSE r \in {DecryptWords(m, data, (lo + hi) \div 2, hi) :
                       m \in {DecryptWords(st, data, lo, (lo + hi) \div 2)}} : TRUE

Decrypt(data, key) ==
    CHOOSE r \in {DecryptWords([seed1 |-> dk[2], seed2 |-> <<61166, 61166>>,
                                result |-> <<>>],
                               dk[1], 0, Len(dk[1]) \div 4).result :
                  dk \in {<<data, key>>}} : TRUE

\* ------------------------------------------------------------------------
\* The file object
\* ------------------------------------------------------------------------

\* file.read(n) at position p: [data, pos].  A negative n reads to the end.
FileRead(f, p, n) ==
    LET end == IF n < 0 THEN Len(f) ELSE Min(p + n, Len(f))
        data == IF p >= Len(f) THEN <<>> ELSE SubSeq(f, p + 1, end)
    IN  [data |-> data, pos |-> p + Len(data)]

\* file.seek(offset): a negative offset raises IOError.
SeekOk(offset) == offset >= 0

\* ------------------------------------------------------------------------
\* zlib.decompress(data, 15) and str.splitlines
\* ------------------------------------------------------------------------

RECURSIVE Adler32(_, _, _, _)
Adler32(data, i, a, b) ==
    IF i > Len(data) THEN <<b, a>>
    ELSE LET a2 == (a + data[i]) % 65521
         IN  Adler32(data, i + 1, a2, (b + a2) % 65521)

\* The deflate blocks from byte k (0-based) on.  Stored blocks (BTYPE 0) are
\* decoded; BTYPE 3 is invalid.  Huffman-coded blocks (BTYPE 1, 2) are not
\* decoded here and are reported as an error as well: the archives of this
\* model hold none.  [err, out, next].
RECURSIVE InflateStored(_, _, _)
InflateStored(data, k, out) ==
    IF k + 5 > Len(data) THEN [err |-> TRUE, out |-> <<>>, next |-> 0]
    ELSE LET hd == data[k + 1]
             len == (data[k + 3] * 256) + data[k + 2]
             nlen == (data[k + 5] * 256) + data[k + 4]
         IN  IF (hd \div 2) % 4 # 0 \/ len + nlen # 65535 \/ k + 5 + len > Len(data)
             THEN [err |-> TRUE, out |-> <<>>, next |-> 0]
             ELSE IF hd % 2 = 1
                  THEN [err |-> FALSE, out |-> out \o Slice(data, k + 5, k + 5 + len),
                        next |-> k + 5 + len]
                  ELSE InflateStored(data, k + 5 + len, out \o Slice(data, k + 5, k + 5 + len))

\* The four bytes of the Adler-32 of out, big-endian.
Adler32Bytes(out) ==
    LET sum == Adler32(out, 1, 1, 0)
    IN  <<sum[1] \div 256, sum[1] % 256, sum[2] \div 256, sum[2] % 256>>

\* The end of zlib.decompress: r is the result of inflating data from byte 2.
ZlibTrailer(data, r) ==
    IF r.err \/ r.next + 4 > Len(data) THEN [err |-> TRUE, out |-> <<>>]
    ELSE IF Slice(data, r.next, r.next + 4) = Adler32Bytes(r.out)
    THEN [err |-> FALSE, out |-> r.out]
    ELSE [err |-> TRUE, out |-> <<>>]

\* zlib.decompress(data, 15): the two-byte zlib header, the deflate stream,
\* the Adler-32 of the output (big-endian).  [err, out].
ZlibDecompress(data) ==
    IF Len(data) < 2 THEN [err |-> TRUE, out |-> <<>>]
    ELSE IF data[1] % 16 # 8 \/ data[1] \div 16 > 7
            \/ ((data[1] * 256) + data[2]) % 31 # 0 \/ (data[2] \div 32) % 2 = 1
    THEN [err |-> TRUE, out |-> <<>>]
    ELSE ZlibTrailer(data, InflateStored(data, 2, <<>>))

\* str.splitlines(): lines end at "\n", "\r" or "\r\n"; the breaks are dropped
\* and a text ending in a break has no empty last line.
RECURSIVE SplitLinesLoop(_, _, _, _)
SplitLinesLoop(s, i, cur, lines) ==
    IF i > Len(s) THEN (IF cur = <<>> THEN lines ELSE Append(lines, cur))
    ELSE IF s[i] = 10 THEN SplitLinesLoop(s, i + 1, <<>>, Append(lines, cur))
    ELSE IF s[i] = 13
         THEN SplitLinesLoop(s, IF i < Len(s) /\ s[i + 1] = 10 THEN i + 2 ELSE i + 1,
                             <<>>, Append(lines, cur))
         ELSE SplitLinesLoop(s, i + 1, Append(cur, s[i]), lines)

SplitLines(s) == SplitLinesLoop(s, 1, <<>>, <<>>)

\* ------------------------------------------------------------------------
\* read_header
\* ------------------------------------------------------------------------

MAGIC_A == <<77, 80, 81, 26>>   \* 'MPQ\x1a'
MAGIC_B == <<77, 80, 81, 27>>   \* 'MPQ\x1b'

\* '\x15StarCraft II replay'
REPLAY_SIG ==
    <<21, 83, 116, 97, 114, 67, 114, 97, 102, 116, 32, 73, 73, 32, 114, 101, 112, 108,
      97, 121>>

\* A signed byte (struct format 'b').
UnpackI8(b) == IF b >= 128 THEN b - 256 ELSE b

\* struct.unpack('>x19s2x4bi6xhx', content): raises struct.error unless content
\* has the 39 bytes of the format.  [err, val].
UnpackReplayHeader(content) ==
    IF Len(content) # 39 THEN [err |-> "struct.error", val |-> <<>>]
    ELSE [err |-> "",
          val |-> <<[identifier |-> Slice(content, 1, 20),
                     release_flag |-> UnpackI8(content[23]),
                     major_version |-> UnpackI8(content[24]),
                     minor_version |-> UnpackI8(content[25]),
                     maintenance_version |-> UnpackI8(content[26]),
                     build_number |-> UnpackI32(<<content[30], content[29],
                                                  content[28], content[27]>>),
                     duration |-> UnpackI16(<<content[38], content[37]>>)]>>]

\* struct.unpack('<4s2i2h4i', d) of 32 bytes, as the header dict.
UnpackFileHeader(d) ==
    [magic |-> Slice(d, 0, 4),
     header_size |-> UnpackI32(Slice(d, 4, 8)),
     arhive_size |-> UnpackI32(Slice(d, 8, 12)),
     format_version |-> UnpackI16(Slice(d, 12, 14)),
     sector_size_shift |-> UnpackI16(Slice(d, 14, 16)),
     hash_table_offset |-> UnpackI32(Slice(d, 16, 20)),
     block_table_offset |-> UnpackI32(Slice(d, 20, 24)),
     hash_table_entries |-> UnpackI32(Slice(d, 24, 28)),
     block_table_entries |-> UnpackI32(Slice(d, 28, 32)),
     ext |-> <<>>,
     offset |-> 0,
     user_data_header |-> <<>>]

\* struct.unpack('q2h', e) of 12 bytes.
UnpackFileHeaderExt(e) ==
    [extended_block_table_offset |-> <<UnpackU32(Slice(e, 4, 8)), UnpackU32(Slice(e, 0, 4))>>,
     hash_table_offset_high |-> UnpackI16(Slice(e, 8, 10)),
     block_table_offset_high |-> UnpackI16(Slice(e, 10, 12))]

\* Lines 129-134 of read_mpq_header: the extension of a format_version 1
\* header h; r2 is the read of its 12 bytes.
ReadHeaderExt(h, p0, r2) ==
    IF Len(r2.data) # 12
    THEN [err |-> "struct.error", header |-> <<>>, pos |-> r2.pos, read_at |-> <<p0>>]
    ELSE [err |-> "", header |-> <<[h EXCEPT !.ext = <<UnpackFileHeaderExt(r2.data)>>]>>,
          pos |-> r2.pos, read_at |-> <<p0>>]

\* Lines 126-134 of read_mpq_header; r is the read of 32 bytes at p0.
ReadHeaderRecord(f, p0, r) ==
    IF Len(r.data) # 32
    THEN [err |-> "struct.error", header |-> <<>>, pos |-> r.pos, read_at |-> <<p0>>]
    ELSE IF UnpackFileHeader(r.data).format_version = 1
    THEN ReadHeaderExt(UnpackFileHeader(r.data), p0, FileRead(f, r.pos, 12))
    ELSE [err |-> "", header |-> <<UnpackFileHeader(r.data)>>, pos |-> r.pos,
          read_at |-> <<p0>>]

\* read_mpq_header(offset): offset is <<>> (the default, None) or <<n>>;
\* `if offset:` seeks for a non-zero n only.  [err, header, pos, read_at]:
\* header is <<>> or <<the header>>, read_at is <<>> or <<the position the
\* 32-byte record was read from>>.
read_mpq_header(f, p, offset) ==
    IF offset # <<>> /\ offset[1] # 0
    THEN IF ~SeekOk(offset[1])
         THEN [err |-> "IOError", header |-> <<>>, pos |-> p, read_at |-> <<>>]
         ELSE ReadHeaderRecord(f, offset[1], FileRead(f, offset[1], 32))
    ELSE ReadHeaderRecord(f, p, FileRead(f, p, 32))

\* Lines 140-146 of read_mpq_user_data_header; d is the 16-byte record and c
\* the read of the content.
UserDataHeader(d, c) ==
    [magic |-> Slice(d, 0, 4),
     user_data_size |-> UnpackI32(Slice(d, 4, 8)),
     mpq_header_offset |-> UnpackI32(Slice(d, 8, 12)),
     user_data_header_size |-> UnpackI32(Slice(d, 12, 16)),
     content |-> c.data,
     starcraft2_replay_header |->
         IF Slice(c.data, 0, 20) = REPLAY_SIG THEN UnpackReplayHeader(c.data).val
         ELSE <<>>]

ReadUserDataContent(d, c) ==
    IF Slice(c.data, 0, 20) = REPLAY_SIG /\ UnpackReplayHeader(c.data).err # ""
    THEN [err |-> UnpackReplayHeader(c.data).err, header |-> <<>>, pos |-> c.pos]
    ELSE [err |-> "", header |-> <<UserDataHeader(d, c)>>, pos |-> c.pos]

\* read_mpq_user_data_header() at position p.  [err, header, pos].
read_mpq_user_data_header(f, p) ==
    IF Len(FileRead(f, p, 16).data) # 16
    THEN [err |-> "struct.error", header |-> <<>>, pos |-> FileRead(f, p, 16).pos]
    ELSE ReadUserDataContent(FileRead(f, p, 16).data,
                             FileRead(f, p + 16,
                                      UnpackI32(Slice(FileRead(f, p, 16).data, 12, 16))))

\* Lines 153 and 157-158: header['offset'] and header['user_data_header'] set
\* in the header that r holds.
WithOffset(r, offset, user_data_header) ==
    IF r.err # "" THEN r
    ELSE [r EXCEPT !.header = <<[r.header[1] EXCEPT
                                    !.offset = offset,
                                    !.user_data_header = user_data_header]>>]

\* Lines 155-158; u is the result of read_mpq_user_data_header.
ReadAfterUserData(f, u) ==
    IF u.err # ""
    THEN [err |-> u.err, header |-> <<>>, pos |-> u.pos, read_at |-> <<>>]
    ELSE WithOffset(read_mpq_header(f, u.pos, <<u.header[1].mpq_header_offset>>),
                    u.header[1].mpq_header_offset, u.header)

\* read_header().  With neither magic, `return header` reads a local that was
\* never bound: UnboundLocalError.
read_header(f, p) ==
    IF FileRead(f, p, 4).data = MAGIC_A
    THEN WithOffset(read_mpq_header(f, 0, <<>>), 0, <<>>)
    ELSE IF FileRead(f, p, 4).data = MAGIC_B
    THEN ReadAfterUserData(f, read_mpq_user_data_header(f, 0))
    ELSE [err |-> "UnboundLocalError", header |-> <<>>, pos |-> 0, read_at |-> <<>>]

\* ------------------------------------------------------------------------
\* read_table
\* ------------------------------------------------------------------------

HASH_TABLE_NAME == <<40, 104, 97, 115, 104, 32, 116, 97, 98, 108, 101, 41>>
BLOCK_TABLE_NAME == <<40, 98, 108, 111, 99, 107, 32, 116, 97, 98, 108, 101, 41>>
LISTFILE == <<40, 108, 105, 115, 116, 102, 105, 108, 101, 41>>

\* read_table(table_type) with table_type "hash" or "block".
\* [err, table, pos, seek_to].
read_table(f, p, h, table_type) ==
    LET table_offset == IF table_type = "hash" THEN h.hash_table_offset
                        ELSE h.block_table_offset
        table_size == (IF table_type = "hash" THEN h.hash_table_entries
                       ELSE h.block_table_entries) * 16
        table_key == Hash(IF table_type = "hash" THEN HASH_TABLE_NAME
                          ELSE BLOCK_TABLE_NAME, TABLE)
        to == table_offset + h.offset
    IN  IF ~SeekOk(to)
        THEN [err |-> "IOError", table |-> <<>>, pos |-> p, seek_to |-> <<>>]
        ELSE LET r == FileRead(f, to, table_size)
             IN  [err |-> "", table |-> Decrypt(r.data, table_key), pos |-> r.pos,
                  seek_to |-> <<to>>]

\* ------------------------------------------------------------------------
\* read_file
\* ------------------------------------------------------------------------

\* A 32-bit unsigned value as a number, for positions and sizes.  Values from
\* 2^30 on are all taken as 2^30: every buffer and file of the model is far
\* shorter, so a slice, a seek or a read behaves the same for all of them.
U32Nat(w) == IF w[1] >= 16384 THEN 16384 * 65536 ELSE (w[1] * 65536) + w[2]

\* flags & MPQ_FILE_EXISTS (0x80000000)
FlagExists(flags) == flags[1] >= 32768

\* flags & MPQ_FILE_COMPRESS (0x00000200)
FlagCompress(flags) == (flags[2] \div 512) % 2 = 1

\* struct.unpack('2I2HI', data) for entry i of the hash table: <<>> stands for
\* struct.error (data is not 16 bytes long), else <<the entry>>.
UnpackHashEntry(data, i) ==
    IF Len(data) # 16 THEN <<>>
    ELSE <<[hash_a |-> UnpackU32(Slice(data, 0, 4)),
            hash_b |-> UnpackU32(Slice(data, 4, 8)),
            locale |-> UnpackU16(Slice(data, 8, 10)),
            platform |-> UnpackU16(Slice(data, 10, 12)),
            block_table_index |-> UnpackU32(Slice(data, 12, 16)),
            at |-> i]>>

\* A scan that takes the first entry whose hash_a matches, whatever its hash_b.
RECURSIVE ScanOnHashA(_, _, _, _, _, _)
ScanOnHashA(table, n, want_a, want_b, i, entry) ==
    IF i >= n THEN [err |-> "", entry |-> entry, examined |-> i, matched |-> FALSE]
    ELSE IF UnpackHashEntry(Slice(table, i * 16, (i * 16) + 16), i) = <<>>
    THEN [err |-> "struct.error", entry |-> entry, examined |-> i, matched |-> FALSE]
    ELSE IF UnpackHashEntry(Slice(table, i * 16, (i * 16) + 16), i)[1].hash_a = want_a
    THEN [err |-> "", entry |-> UnpackHashEntry(Slice(table, i * 16, (i * 16) + 16), i),
          examined |-> i + 1, matched |-> TRUE]
    ELSE ScanOnHashA(table, n, want_a, want_b, i + 1,
                     UnpackHashEntry(Slice(table, i * 16, (i * 16) + 16), i))

\* The scan of the hash table: entries 0, 1, ... are unpacked in turn until one
\* has both hashes.  [err, entry, examined, matched]: entry is <<>> while the
\* local `entry` is unbound, else <<the last entry unpacked>> (with its index
\* as field `at`); examined counts the entries unpacked.
RECURSIVE ScanHashTable(_, _, _, _, _, _)
ScanHashTable(table, n, want_a, want_b, i, entry) ==
    IF i >= n THEN [err |-> "", entry |-> entry, examined |-> i, matched |-> FALSE]
    ELSE LET e == UnpackHashEntry(Slice(table, i * 16, (i * 16) + 16), i)
         IN  IF e = <<>>
             THEN [err |-> "struct.error", entry |-> entry, examined |-> i,
                   matched |-> FALSE]
             ELSE IF e[1].hash_a = want_a /\ e[1].hash_b = want_b
             THEN [err |-> "", entry |-> e, examined |-> i + 1, matched |-> TRUE]
             ELSE ScanHashTable(table, n, want_a, want_b, i + 1, e)

\* The result of a read_file call.
\* [name, err, ret, pos, examined, matched, entry, block, fetched]: err is ""
\* or the exception raised; ret is <<>> (None) or <<the bytes returned>>; pos
\* is the file position afterwards; entry and block are <<>> or <<the
\* hash-table entry used>>, <<the block-table entry unpacked>>; fetched tells
\* whether file.read was called.
ReadResult(filename, s, err, ret, p, block, fetched) ==
    [name |-> filename, err |-> err, ret |-> ret, pos |-> p,
     examined |-> s.examined, matched |-> s.matched,
     entry |-> IF s.err = "" THEN s.entry ELSE <<>>,
     block |-> block, fetched |-> fetched]

\* The data fetched (r, at the file position r.pos) of a block with the
\* COMPRESS flag.
Decompress(filename, s, b, r) ==
    IF r.data = <<>>
    THEN ReadResult(filename, s, "IndexError", <<>>, r.pos, <<b>>, TRUE)
    ELSE IF r.data[1] = 2
    THEN LET z == ZlibDecompress(Tail(r.data))
         IN  IF z.err
             THEN ReadResult(filename, s, "zlib.error", <<>>, r.pos, <<b>>, TRUE)
             ELSE ReadResult(filename, s, "", <<z.out>>, r.pos, <<b>>, TRUE)
    ELSE ReadResult(filename, s, "", <<r.data>>, r.pos, <<b>>, TRUE)

\* A read of the block b that does not seek: the data is read at the
\* position p the file is at.
ReadBlockNoSeek(f, p, h, filename, s, b) ==
    IF FlagExists(b.flags)
    THEN IF FlagCompress(b.flags)
         THEN Decompress(filename, s, b, FileRead(f, p, U32Nat(b.archived_size)))
         ELSE ReadResult(filename, s, "", <<FileRead(f, p, U32Nat(b.archived_size)).data>>,
                         FileRead(f, p, U32Nat(b.archived_size)).pos, <<b>>, TRUE)
    ELSE ReadResult(filename, s, "", <<>>, p, <<b>>, FALSE)

\* What read_file does once the block-table entry b is unpacked.
ReadBlock(f, p, h, filename, s, b) ==
    IF FlagExists(b.flags)
    THEN LET offset == U32Nat(b.offset) + h.offset
         IN  IF ~SeekOk(offset)
             THEN ReadResult(filename, s, "IOError", <<>>, p, <<b>>, FALSE)
             ELSE IF FlagCompress(b.flags)
             THEN Decompress(filename, s, b,
                             FileRead(f, offset, U32Nat(b.archived_size)))
             ELSE LET r == FileRead(f, offset, U32Nat(b.archived_size))
                  IN  ReadResult(filename, s, "", <<r.data>>, r.pos, <<b>>, TRUE)
    ELSE ReadResult(filename, s, "", <<>>, p, <<b>>, FALSE)

\* self.block_table[pos:pos+16] with pos = entry.block_table_index * 16.
BlockEntryData(block_table, entry) ==
    IF entry.block_table_index[1] >= 2048 THEN <<>>
    ELSE Slice(block_table, U32Nat(entry.block_table_index) * 16,
               (U32Nat(entry.block_table_index) * 16) + 16)

\* struct.unpack('4I', data) of 16 bytes.
UnpackBlockEntry(data) ==
    [offset |-> UnpackU32(Slice(data, 0, 4)),
     archived_size |-> UnpackU32(Slice(data, 4, 8)),
     size |-> UnpackU32(Slice(data, 8, 12)),
     flags |-> UnpackU32(Slice(data, 12, 16))]

\* read_file after the scan s of the hash table.  With no entry unpacked the
\* local `entry` is unbound: UnboundLocalError.
ReadScanned(f, p, h, block_table, filename, s) ==
    IF s.err # "" THEN ReadResult(filename, s, s.err, <<>>, p, <<>>, FALSE)
    ELSE IF s.entry = <<>>
    THEN ReadResult(filename, s, "UnboundLocalError", <<>>, p, <<>>, FALSE)
    ELSE LET data == BlockEntryData(block_table, s.entry[1])
         IN  IF Len(data) # 16
             THEN ReadResult(filename, s, "struct.error", <<>>, p, <<>>, FALSE)
             ELSE ReadBlock(f, p, h, filename, s, UnpackBlockEntry(data))

\* read_file(filename) on an archive with header h and the two tables.
read_file(f, p, h, hash_table, block_table, filename) ==
    ReadScanned(f, p, h, block_table, filename,
                ScanHashTable(hash_table, h.hash_table_entries,
                              Hash(filename, HASH_A), Hash(filename, HASH_B), 0, <<>>))

\* ------------------------------------------------------------------------
\* extract
\* ------------------------------------------------------------------------

\* dict((f, self.read_file(f)) for f in self.files): the files are read in
\* order; the first exception ends it.  [err, pos, items]: items is the
\* sequence of <<name, ret>> pairs the dict is built from.
RECURSIVE ExtractLoop(_, _, _, _, _, _, _, _)
ExtractLoop(f, p, h, hash_table, block_table, names, i, items) ==
    IF i > Len(names) THEN [err |-> "", pos |-> p, items |-> items]
    ELSE CHOOSE t \in
           {IF r.err # "" THEN [err |-> r.err, pos |-> r.pos, items |-> <<>>]
            ELSE ExtractLoop(f, r.pos, h, hash_table, block_table, names, i + 1,
                             Append(items, <<names[i], r.ret>>)) :
            r \in {read_file(f, p, h, hash_table, block_table, names[i])}} : TRUE

\* The dict of the pairs items[1..i]: a later pair replaces an earlier one of
\* the same key.
RECURSIVE DictOf(_, _)
DictOf(items, i) ==
    IF i = 0 THEN <<>>
    ELSE Append(SelectSeq(DictOf(items, i - 1), LAMBDA kv : kv[1] # items[i][1]),
                items[i])

\* extract().  [err, pos, dict]: the dict as a sequence of <<key, value>>
\* pairs, one per key.
extract(f, p, h, hash_table, block_table, names) ==
    CHOOSE t \in {[err |-> r.err, pos |-> r.pos, dict |-> DictOf(r.items, Len(r.items))] :
                  r \in {ExtractLoop(f, p, h, hash_table, block_table, names, 1, <<>>)}} :
        TRUE

\* ------------------------------------------------------------------------
\* The archives the model opens
\* ------------------------------------------------------------------------

MaxHashEntries == 2
MaxBlockEntries == 2
MaxVersion == 2
MaxCut == 18

PackI32(v) ==
    <<(v % 65536) % 256, (v % 65536) \div 256,
      ((v \div 65536) % 65536) % 256, ((v \div 65536) % 65536) \div 256>>

PackI16(v) == <<(v % 65536) % 256, (v % 65536) \div 256>>

\* The inverse of Decrypt: the bytes a writer of the format stores for a table.
EncryptStep(st, word) ==
    CHOOSE t \in {[seed1 |-> NextSeed1(st.seed1),
                   seed2 |-> Add32(Add32(Add32(UnpackU32(word), seed2), Shl5(seed2)),
                                   U32(3)),
                   result |-> st.result
                              \o PackU32(Xor32(UnpackU32(word), Add32(st.seed1, seed2)))] :
                  seed2 \in {Add32(st.seed2,
                                   encryption_table[1024 + (st.seed1[2] % 256)])}} : TRUE

RECURSIVE EncryptWords(_, _, _, _)
EncryptWords(st, data, lo, hi) ==
    IF hi = lo THEN st
    ELSE IF hi - lo = 1 THEN EncryptStep(st, Slice(data, lo * 4, (lo * 4) + 4))
    ELSE CHOOSE r \in {EncryptWords(m, data, (lo + hi) \div 2, hi) :
                       m \in {EncryptWords(st, data, lo, (lo + hi) \div 2)}} : TRUE

Encrypt(data, key) ==
    CHOOSE r \in {EncryptWords([seed1 |-> dk[2], seed2 |-> <<61166, 61166>>,
                                result |-> <<>>],
                               dk[1], 0, Len(dk[1]) \div 4).result :
                  dk \in {<<data, key>>}} : TRUE

NAME_A == <<97>>    \* "a"
NAME_B == <<98>>    \* "b"

\* The stored members: the listing "a\nb", the text "hi", "hi" as method byte 2
\* and a zlib stream of one stored block, "hi" behind the method byte 3.
Payloads ==
    << <<97, 10, 98>>,
       <<104, 105>>,
       <<2, 120, 1, 1, 2, 0, 253, 255, 104, 105, 1, 59, 0, 210>>,
       <<3, 104, 105>> >>

RECURSIVE Concat(_, _)
Concat(seqs, i) == IF i = 0 THEN <<>> ELSE Concat(seqs, i - 1) \o seqs[i]

RECURSIVE SeqsUpTo(_, _)
SeqsUpTo(S, n) ==
    IF n = 0 THEN {<<>>}
    ELSE LET shorter == SeqsUpTo(S, n - 1)
         IN  shorter \cup {Append(q, x) : q \in {t \in shorter : Len(t) = n - 1}, x \in S}

HashKinds == {"lf0", "a1", "a0", "half0", "aS", "b1"}
BlockKinds == {"list", "plain", "zlib", "bad", "gone", "empty"}

\* A hash-table entry: hash_a, hash_b, locale, platform, block_table_index.
HashEntryBytes(kind) ==
    LET na == IF kind = "lf0" THEN LISTFILE ELSE IF kind = "b1" THEN NAME_B ELSE NAME_A
        nb == IF kind = "lf0" THEN LISTFILE
              ELSE IF kind \in {"b1", "half0"} THEN NAME_B ELSE NAME_A
        index == IF kind \in {"a1", "b1"} THEN <<0, 1>>
                 ELSE IF kind = "aS" THEN <<65535, 65535>> ELSE <<0, 0>>
    IN  PackU32(Hash(na, HASH_A)) \o PackU32(Hash(nb, HASH_B)) \o <<0, 0, 0, 0>>
        \o PackU32(index)

\* A block-table entry: offset, archived_size, size, flags.
BlockEntryBytes(kind, first_payload) ==
    LET k == CASE kind = "list" -> 1
               [] kind = "zlib" -> 3
               [] kind = "bad" -> 4
               [] OTHER -> 2
        off == first_payload + Len(Concat(Payloads, k - 1))
        asize == IF kind = "empty" THEN 0 ELSE Len(Payloads[k])
        size == IF kind = "list" THEN 3 ELSE 2
        flags == CASE kind \in {"list", "plain"} -> <<33024, 0>>
                   [] kind \in {"zlib", "bad", "empty"} -> <<33024, 512>>
                   [] OTHER -> <<512, 0>>
    IN  PackI32(off) \o PackI32(asize) \o PackI32(size) \o PackU32(flags)

DeclaredCount(how, stored) ==
    IF how = "neg" THEN -1 ELSE IF how = "more" THEN stored + 1 ELSE stored

\* The bytes of the archive that p describes:
\*   framing  "a": 'MPQ\x1a' at 0; "bP": a user-data header whose
\*            mpq_header_offset is the position of the archive header that
\*            follows it; "b0": the same with mpq_header_offset 0; "x": as "a"
\*            with the magic 'MPQ\x1c'
\*   content  the user-data header's content
\*   version  format_version
\*   hashes, blocks   the kinds of the table entries
\*   order    which table is stored last
\*   hcount, bcount   the declared entry counts against the stored ones:
\*            "actual", "more" (one more) or "neg" (-1)
\*   hoff     "actual" or "neg" (hash_table_offset -1)
\*   keep     the number of bytes of it the file holds (-1: all)
UserDataLen(p) == IF p.framing \in {"bP", "b0"} THEN 16 + Len(p.content) ELSE 0

\* The mpq_header_offset the archive declares (0 without user data).
DeclaredOffset(p) == IF p.framing = "bP" THEN UserDataLen(p) ELSE 0

HeaderLen(p) == 32 + (IF p.version = 1 THEN 12 ELSE 0)

\* The file positions of the first payload and of the first table.
PayloadStart(p) == UserDataLen(p) + HeaderLen(p)

TablesStart(p) == PayloadStart(p) + Len(Concat(Payloads, Len(Payloads)))

HashTablePlain(p) ==
    Concat([i \in 1..Len(p.hashes) |-> HashEntryBytes(p.hashes[i])], Len(p.hashes))

BlockTablePlain(p) ==
    Concat([i \in 1..Len(p.blocks) |->
               BlockEntryBytes(p.blocks[i], PayloadStart(p) - DeclaredOffset(p))],
           Len(p.blocks))

UserDataBytes(p) ==
    IF p.framing \in {"bP", "b0"}
    THEN MAGIC_B \o PackI32(Len(p.content)) \o PackI32(DeclaredOffset(p))
         \o PackI32(Len(p.content)) \o p.content
    ELSE <<>>

\* The archive header; the tables take 16 bytes an entry.
HeaderBytes(p) ==
    (IF p.framing = "x" THEN <<77, 80, 81, 28>> ELSE MAGIC_A)
    \o PackI32(HeaderLen(p))
    \o PackI32((TablesStart(p) + (16 * (Len(p.hashes) + Len(p.blocks)))) - UserDataLen(p))
    \o PackI16(p.version) \o PackI16(3)
    \o PackI32(IF p.hoff = "neg" THEN -1
               ELSE (TablesStart(p) - DeclaredOffset(p))
                    + (IF p.order = "block-last" THEN 0 ELSE 16 * Len(p.blocks)))
    \o PackI32((TablesStart(p) - DeclaredOffset(p))
               + (IF p.order = "block-last" THEN 16 * Len(p.hashes) ELSE 0))
    \o PackI32(DeclaredCount(p.hcount, Len(p.hashes)))
    \o PackI32(DeclaredCount(p.bcount, Len(p.blocks)))
    \o (IF p.version = 1 THEN <<0, 0, 0, 0, 0, 0, 0, 0, 0, 0, 0, 0>> ELSE <<>>)

ArchiveBytes(p) ==
    UserDataBytes(p) \o HeaderBytes(p) \o Concat(Payloads, Len(Payloads))
    \o (IF p.order = "block-last"
        THEN Encrypt(HashTablePlain(p), Hash(HASH_TABLE_NAME, TABLE))
             \o Encrypt(BlockTablePlain(p), Hash(BLOCK_TABLE_NAME, TABLE))
        ELSE Encrypt(BlockTablePlain(p), Hash(BLOCK_TABLE_NAME, TABLE))
             \o Encrypt(HashTablePlain(p), Hash(HASH_TABLE_NAME, TABLE)))

Archive(p) ==
    IF p.keep < 0 THEN ArchiveBytes(p)
    ELSE Slice(ArchiveBytes(p), 0, p.keep)

Baseline ==
    [framing |-> "a", content |-> <<>>, version |-> 0, hashes |-> <<"lf0", "a1">>,
     blocks |-> <<"list", "plain">>, order |-> "block-last", hcount |-> "actual",
     bcount |-> "actual", hoff |-> "actual", keep |-> -1]

Contents ==
    {<<>>, <<1, 2, 3, 4>>, REPLAY_SIG,
     REPLAY_SIG \o <<0, 0, 0, 1, 2, 3, 0, 0, 64, 0, 0, 0, 0, 0, 0, 0, 1, 44, 0>>}

\* The archives: the baseline varied along one axis at a time.
ArchiveParams ==
    {[Baseline EXCEPT !.hashes = hs] : hs \in SeqsUpTo(HashKinds, MaxHashEntries)}
    \cup {[Baseline EXCEPT !.blocks = bs] : bs \in SeqsUpTo(BlockKinds, MaxBlockEntries)}
    \cup {[Baseline EXCEPT !.framing = fr, !.content = uc, !.version = fv] :
             fr \in {"a", "bP", "b0", "x"}, uc \in Contents, fv \in 0..MaxVersion}
    \cup {[Baseline EXCEPT !.order = od, !.keep = Len(Archive(Baseline)) - cut] :
             od \in {"block-last", "hash-last"}, cut \in 0..MaxCut}
    \cup {[Baseline EXCEPT !.version = fv, !.keep = kp] :
             fv \in {0, 1}, kp \in {0, 3, 4, 31, 32, 43, 44}}
    \cup {[Baseline EXCEPT !.order = od, !.hcount = hc, !.bcount = bc, !.hoff = ho] :
             od \in {"block-last", "hash-last"}, hc \in {"actual", "more", "neg"},
             bc \in {"actual", "more", "neg"}, ho \in {"actual", "neg"}}

Archives == {Archive(p) : p \in ArchiveParams}

\* ------------------------------------------------------------------------
\* The archive object and its calls
\* ------------------------------------------------------------------------

VARIABLES
    file,         \* the bytes of the opened file
    pos,          \* the file object's position
    pc,           \* "new", "header", "hash", "block": the line __init__ is at;
                  \* "open": constructed; "failed": __init__ raised
    header,       \* self.header: <<>> until set, then <<the header>>
    hash_table,   \* self.hash_table
    block_table,  \* self.block_table
    files,        \* self.files
    exc,          \* the exception the last call raised, "" for none
    hdr_at,       \* <<>> or <<the position the archive header was read from>>
    table_at,     \* the positions read_table sought to, in call order
    last,         \* <<>> or <<what the last read_file call did and returned>>
    first,        \* per name: <<>> or <<the outcome of the first read_file of it>>
    extracted     \* <<>> or <<the outcome of the last extract call>>

vars == <<file, pos, pc, header, hash_table, block_table, files, exc, hdr_at,
          table_at, last, first, extracted>>

\* The names the calls of the model ask for.
ReadNames == {LISTFILE, NAME_A, NAME_B}

Outcome(r) == [err |-> r.err, ret |-> r.ret]

Remember(fst, r) ==
    IF fst[r.name] = <<>> THEN [fst EXCEPT ![r.name] = <<Outcome(r)>>] ELSE fst

Init ==
    /\ file \in Archives
    /\ pos = 0
    /\ pc = "new"
    /\ header = <<>>
    /\ hash_table = <<>>
    /\ block_table = <<>>
    /\ files = <<>>
    /\ exc = ""
    /\ hdr_at = <<>>
    /\ table_at = <<>>
    /\ last = <<>>
    /\ first = [n \in ReadNames |-> <<>>]
    /\ extracted = <<>>

\* __init__, line 114: self.header = self.read_header()
InitReadHeader ==
    /\ pc = "new"
    /\ \E r \in {read_header(file, pos)} :
           /\ pos' = r.pos
           /\ hdr_at' = r.read_at
           /\ exc' = r.err
           /\ IF r.err # ""
              THEN pc' = "failed" /\ UNCHANGED header
              ELSE pc' = "header" /\ header' = r.header
    /\ UNCHANGED <<file, hash_table, block_table, files, table_at, last, first, extracted>>

\* __init__, line 115: self.hash_table = self.read_table('hash')
InitReadHashTable ==
    /\ pc = "header"
    /\ \E r \in {read_table(file, pos, header[1], "hash")} :
           /\ pos' = r.pos
           /\ table_at' = table_at \o r.seek_to
           /\ exc' = r.err
           /\ IF r.err # ""
              THEN pc' = "failed" /\ UNCHANGED hash_table
              ELSE pc' = "hash" /\ hash_table' = r.table
    /\ UNCHANGED <<file, header, block_table, files, hdr_at, last, first, extracted>>

\* __init__, line 116: self.block_table = self.read_table('block')
InitReadBlockTable ==
    /\ pc = "hash"
    /\ \E r \in {read_table(file, pos, header[1], "block")} :
           /\ pos' = r.pos
           /\ table_at' = table_at \o r.seek_to
           /\ exc' = r.err
           /\ IF r.err # ""
              THEN pc' = "failed" /\ UNCHANGED block_table
              ELSE pc' = "block" /\ block_table' = r.table
    /\ UNCHANGED <<file, header, hash_table, files, hdr_at, last, first, extracted>>

\* __init__, line 117: self.files = self.read_file('(listfile)').splitlines()
\* A read_file that returns None makes .splitlines() raise AttributeError.
InitReadListfile ==
    /\ pc = "block"
    /\ \E r \in {read_file(file, pos, header[1], hash_table, block_table, LISTFILE)} :
           /\ pos' = r.pos
           /\ last' = <<r>>
           /\ first' = Remember(first, r)
           /\ IF r.err # ""
              THEN pc' = "failed" /\ exc' = r.err /\ UNCHANGED files
              ELSE IF r.ret = <<>>
              THEN pc' = "failed" /\ exc' = "AttributeError" /\ UNCHANGED files
              ELSE pc' = "open" /\ exc' = "" /\ files' = SplitLines(r.ret[1])
    /\ UNCHANGED <<file, header, hash_table, block_table, hdr_at, table_at, extracted>>

\* archive.read_file(name)
ReadFile(name) ==
    /\ pc = "open"
    /\ \E r \in {read_file(file, pos, header[1], hash_table, block_table, name)} :
           /\ pos' = r.pos
           /\ last' = <<r>>
           /\ first' = Remember(first, r)
           /\ exc' = r.err
    /\ UNCHANGED <<file, pc, header, hash_table, block_table, files, hdr_at, table_at,
                   extracted>>

\* archive.extract()
Extract ==
    /\ pc = "open"
    /\ \E r \in {extract(file, pos, header[1], hash_table, block_table, files)} :
           /\ pos' = r.pos
           /\ extracted' = <<[err |-> r.err, dict |-> r.dict]>>
           /\ exc' = r.err
    /\ UNCHANGED <<file, pc, header, hash_table, block_table, files, hdr_at, table_at,
                   last, first>>

Next ==
    \/ InitReadHeader
    \/ InitReadHashTable
    \/ InitReadBlockTable
    \/ InitReadListfile
    \/ \E name \in ReadNames : ReadFile(name)
    \/ Extract

Spec == Init /\ [][Next]_vars

\* ------------------------------------------------------------------------
\* Properties
\* ------------------------------------------------------------------------

\* The indices of the entries of the hash table (the complete 16-byte records
\* among the first n) that carry both hashes of name.
MatchingEntries(table, n, name) ==
    {i \in 0..(Min(n, Len(table) \div 16) - 1) :
        /\ UnpackU32(Slice(table, i * 16, (i * 16) + 4)) = Hash(name, HASH_A)
        /\ UnpackU32(Slice(table, (i * 16) + 4, (i * 16) + 8)) = Hash(name, HASH_B)}

\* The bytes stored for the block b: archived_size bytes at header offset +
\* block offset.
StoredBytes(f, h, b) ==
    FileRead(f, U32Nat(b.offset) + h.offset, U32Nat(b.archived_size)).data

\* The exceptions that are faults of the program itself, not reports about
\* its input: a local read before assignment, a method called on None, an
\* index into an empty string.
ProgramFaults == {"UnboundLocalError", "AttributeError", "IndexError"}

BadMagic == Slice(file, 0, 4) \notin {MAGIC_A, MAGIC_B}

\* C1: on an opened archive, a read_file of a name whose two hashes match no
\* entry of the hash table raises: it returns nothing and uses no hash-table
\* entry (so no block-table entry either).
C1_AbsentNameRaises ==
    \A i \in DOMAIN last :
        (/\ pc = "open"
         /\ MatchingEntries(hash_table, header[1].hash_table_entries, last[i].name) = {})
        => (/\ last[i].err # ""
            /\ last[i].ret = <<>>
            /\ last[i].entry = <<>>
            /\ last[i].block = <<>>)

\* C2: a read_file whose name matches an entry leading to a block-table entry
\* without the EXISTS flag raises, and does not read the file for data.
C2_AbsentBlockRaises ==
    \A i \in DOMAIN last : \A j \in DOMAIN last[i].block :
        (last[i].matched /\ ~FlagExists(last[i].block[j].flags))
        => (last[i].err # "" /\ ~last[i].fetched)

\* C3: with first four bytes that are neither magic, __init__ fails in
\* read_header with an error that reports the format (not a fault of the
\* program), with no header record read, no table read and no header stored.
C3_BadMagicIsFormatError ==
    (BadMagic /\ pc # "new")
    => (/\ pc = "failed"
        /\ exc \notin ProgramFaults
        /\ header = <<>>
        /\ hdr_at = <<>>
        /\ table_at = <<>>)

\* C4: a read_file that fetched a block with EXISTS and COMPRESS whose first
\* stored byte is not 2 raises and does not return the stored bytes; a block
\* with EXISTS and without COMPRESS returns the stored bytes as they are.
C4_UnknownMethodRaises ==
    \A i \in DOMAIN last : \A j \in DOMAIN last[i].block :
        /\ (/\ last[i].fetched
            /\ FlagCompress(last[i].block[j].flags)
            /\ StoredBytes(file, header[1], last[i].block[j]) # <<>>
            /\ StoredBytes(file, header[1], last[i].block[j])[1] # 2)
           => (/\ last[i].err # ""
               /\ last[i].ret # <<StoredBytes(file, header[1], last[i].block[j])>>)
        /\ (last[i].fetched /\ ~FlagCompress(last[i].block[j].flags))
           => (/\ last[i].err = ""
               /\ last[i].ret = <<StoredBytes(file, header[1], last[i].block[j])>>)

\* C5: in an opened archive the decrypted tables are hash_table_entries * 16
\* and block_table_entries * 16 bytes long.
C5_TableLengths ==
    pc = "open"
    => (/\ Len(hash_table) = header[1].hash_table_entries * 16
        /\ Len(block_table) = header[1].block_table_entries * 16)

\* C6: once the header is read, a file that starts with 'MPQ\x1b' had its
\* 32-byte record read at mpq_header_offset (bytes 8..11 of the file) and
\* header['offset'] is that value; a file that starts with 'MPQ\x1a' had it
\* read at 0 with header['offset'] 0; and each table is sought at
\* header['offset'] + its stored offset.
C6_HeaderAtDeclaredOffset ==
    header # <<>>
    => (/\ Slice(file, 0, 4) = MAGIC_B
           => (/\ hdr_at = <<UnpackI32(Slice(file, 8, 12))>>
               /\ header[1].offset = UnpackI32(Slice(file, 8, 12)))
        /\ Slice(file, 0, 4) = MAGIC_A
           => (hdr_at = <<0>> /\ header[1].offset = 0)
        /\ Len(table_at) >= 1
           => table_at[1] = header[1].offset + header[1].hash_table_offset
        /\ Len(table_at) >= 2
           => table_at[2] = header[1].offset + header[1].block_table_offset)

\* C7: a read_file that matched a hash-table entry and unpacked a block-table
\* entry for it had block_table_index < block_table_entries; with an index
\* out of range it raises, unpacks no block-table entry and reads no data.
C7_IndexInRange ==
    \A i \in DOMAIN last :
        last[i].matched
        => IF U32Nat(last[i].entry[1].block_table_index) < header[1].block_table_entries
           THEN TRUE
           ELSE last[i].err # "" /\ last[i].block = <<>> /\ ~last[i].fetched

\* C8: a read_file that matched used the matching entry of lowest index: the
\* entry has both hashes of the name, no entry after it was unpacked, and
\* the block-table entry unpacked is the one at its block_table_index.
C8_FirstMatchUsed ==
    \A i \in DOMAIN last :
        /\ last[i].matched
           <=> MatchingEntries(hash_table, header[1].hash_table_entries,
                               last[i].name) # {}
        /\ last[i].matched
           => (/\ last[i].entry # <<>>
               /\ last[i].entry[1].at
                    \in MatchingEntries(hash_table, header[1].hash_table_entries,
                                        last[i].name)
               /\ \A k \in MatchingEntries(hash_table, header[1].hash_table_entries,
                                           last[i].name) : last[i].entry[1].at <= k
               /\ last[i].examined = last[i].entry[1].at + 1
               /\ last[i].entry[1].hash_a = Hash(last[i].name, HASH_A)
               /\ last[i].entry[1].hash_b = Hash(last[i].name, HASH_B)
               /\ last[i].entry[1].block_table_index
                    = UnpackU32(Slice(hash_table, (last[i].entry[1].at * 16) + 12,
                                      (last[i].entry[1].at * 16) + 16))
               /\ \A j \in DOMAIN last[i].block :
                      last[i].block[j]
                        = UnpackBlockEntry(BlockEntryData(block_table, last[i].entry[1])))

\* A read that matched on an archive whose hash table holds several entries
\* with both hashes of the name.
C8_Witness ==
    \E i \in DOMAIN last :
        /\ last[i].matched
        /\ last[i].block # <<>>
        /\ Cardinality(MatchingEntries(hash_table, header[1].hash_table_entries,
                                       last[i].name)) >= 2

\* C9: a header is returned for format_version 0 or 1 only; it has the
\* extension exactly for version 1, whose 12 bytes follow the 32-byte record.
C9_VersionChecked ==
    header # <<>>
    => (/\ header[1].format_version \in {0, 1}
        /\ header[1].ext # <<>> <=> header[1].format_version = 1
        /\ pc = "header"
           => pos = hdr_at[1] + 32 + (IF header[1].format_version = 1 THEN 12 ELSE 0))

\* The outcome of every read_file is that of the first read_file of the same
\* name, and that of a read_file at position 0.
ReadsAgree ==
    \A i \in DOMAIN last :
        /\ first[last[i].name] = <<Outcome(last[i])>>
        /\ Outcome(last[i])
             = Outcome(read_file(file, 0, header[1], hash_table, block_table,
                                 last[i].name))

\* C10: once the archive is constructed, read_file and extract leave header,
\* hash_table, block_table and files as they are, and a read_file returns or
\* raises the same for a name whatever calls came before it.
C10_ReadsIndependent ==
    /\ []ReadsAgree
    /\ [][pc = "open" => UNCHANGED <<header, hash_table, block_table, files>>]_vars

\* A read_file that returned, made after an extract and after a read_file of
\* another name that raised.
C10_Witness ==
    /\ pc = "open"
    /\ extracted # <<>>
    /\ \E i \in DOMAIN last :
          /\ last[i].err = ""
          /\ last[i].ret # <<>>
          /\ \E n \in ReadNames \ {last[i].name} :
                first[n] # <<>> /\ first[n][1].err # ""

====
